---- MODULE Spec2Model ----
(***************************************************************************)
(* A model of the retrieval-augmented answering engine of the banking      *)
(* chatbot: the in-memory vector store and the intent index of rag.js, the *)
(* start-up ingestion, and the /ask request handler of server.js.          *)
(*                                                                         *)
(* Numbers.  JavaScript computes similarities in doubles.  Here a score is *)
(* an integer number of hundredths (0.75 is 75, the keyword bonus 0.1 is   *)
(* 10), and the vectors are drawn from sets on which every norm is an      *)
(* integer and every quotient is exact, so that the comparisons the code   *)
(* makes (>=, >, the sort order) come out as they do on the doubles.       *)
(* Sqrt is defined only on perfect squares: a vector outside these sets    *)
(* stops TLC instead of being rounded silently.                            *)
(*                                                                         *)
(* Text.  A string is a sequence of tokens (words, blanks, punctuation,    *)
(* the line break "\n" among them).  Functions on strings are modelled on  *)
(* these tokens.                                                           *)
(***************************************************************************)
EXTENDS Integers, Sequences, FiniteSets, TLC

VARIABLES
    vectors,      \* SimpleVectorStore.vectors
    documents,    \* SimpleVectorStore.documents
    intents,      \* IntentRecognizer.intents, a Map: its entries in insertion order
    faqData,      \* IntentRecognizer.faqData, a Map
    call,         \* the last call made on the store or the index alone, with its outcome
    calls,        \* how many such calls have been made
    server,       \* the revision of the server that runs
    rag,          \* the revision of the rag module it runs with
    init,         \* initializeSystem: "start", "loading", "ready" or "exited"
    validFiles,   \* the files fs.readdir found in the knowledge directory
    knowledge,    \* the chunks loadFile made of the knowledge directory
    cursor,       \* how many of them the loop of setupVectorStore has been through
    seeded,       \* how many intents setupBankingIntents has registered
    seedsStopped, \* whether setupBankingIntents was ended by a rejection
    req,          \* the request in the handler: its position and its locals
    out,          \* what the handler has written with res.write
    ended,        \* how many times the handler has called res.end
    log           \* the calls the handler has made for the request

storeVars == <<vectors, documents>>
intentVars == <<intents, faqData>>
requestVars == <<req, out, ended, log>>
startVars == <<init, validFiles, knowledge, cursor, seeded, seedsStopped>>
buildVars == <<server, rag>>
serverVars == <<server, rag, init, validFiles, knowledge, cursor, seeded, seedsStopped,
                req, out, ended, log>>
vars == <<vectors, documents, intents, faqData, call, calls, server, rag, init,
          validFiles, knowledge, cursor, seeded, seedsStopped, req, out, ended, log>>

----------------------------------------------------------------------------
(* Bounds of the model *)

MaxDocs == 3      \* entries inserted into the vector store
MaxK == 2         \* the largest k a search is asked for
MaxExamples == 2  \* example phrases given to one addIntent call
MaxAdds == 2      \* registrations made on the intent index on its own
MaxLines == 10    \* lines given to chunkLines
MaxChunk == 4     \* the largest group size given to chunkLines
MaxDim == 3       \* the longest vector given to cosineSimilarity on its own
MaxSections == 3  \* sections of a text given to splitText
MaxRaw == 5       \* tokens of a generated text given to generateDynamicAnswer

----------------------------------------------------------------------------
(* JavaScript values *)

\* The double NaN, as a number no score or component of the model takes.
NaN == 1000000

\* An embedding as the embedding gateway hands it out: an array of numbers, or
\* undefined when the body of the service's answer has no embedding field.
Arr(s) == [def |-> TRUE, c |-> s]
Undefined == [def |-> FALSE, c |-> <<>>]

Mul(x, y) == IF x = NaN \/ y = NaN THEN NaN ELSE x * y
Plus(x, y) == IF x = NaN \/ y = NaN THEN NaN ELSE x + y

\* Math.sqrt on the perfect squares.
Sqrt(n) == IF n = NaN THEN NaN ELSE CHOOSE r \in 0..n : r * r = n

\* a.reduce((sum, val) => sum + val ** 2, 0)
RECURSIVE SumSq(_)
SumSq(a) ==
    IF a = <<>> THEN 0
    ELSE Plus(Mul(Head(a), Head(a)), SumSq(Tail(a)))

\* dot / (normA * normB) in hundredths; NaN when an operand is NaN and for
\* 0 / 0, the only division by zero two vectors give.
Quotient(dot, normA, normB) ==
    IF dot = NaN \/ normA = NaN \/ normB = NaN THEN NaN
    ELSE IF normA * normB = 0 THEN NaN
    ELSE (100 * dot) \div (normA * normB)

----------------------------------------------------------------------------
(* Text *)

NL == "\n"

\* String.prototype.toLowerCase on the tokens the model uses.
LowerTok(t) ==
    CASE t = "Card" -> "card"
      [] t = "Password" -> "password"
      [] t = "What" -> "what"
      [] t = "How" -> "how"
      [] t = "X" -> "x"
      [] t = "Hello" -> "hello"
      [] t = "Hi" -> "hi"
      [] t = "History" -> "history"
      [] t = "It" -> "it"
      [] OTHER -> t

toLowerCase(text) == [i \in 1..Len(text) |-> LowerTok(text[i])]

\* Whether the characters of token t contain those of the one-word keyword w.
TokHas(t, w) ==
    \/ t = w
    \/ t = "banking" /\ w = "bank"
    \/ t = "cards" /\ w = "card"
    \/ t = "accounts" /\ w = "account"

\* String.prototype.includes for a keyword given as a sequence of tokens.
includes(text, kw) ==
    IF Len(kw) = 1
    THEN \E i \in 1..Len(text) : TokHas(text[i], kw[1])
    ELSE \E i \in 1..(Len(text) - Len(kw) + 1) :
            SubSeq(text, i, i + Len(kw) - 1) = kw

----------------------------------------------------------------------------
(* SimpleVectorStore (rag.js) *)

bankingKeywords ==
    << <<"account">>, <<"transfer">>, <<"balance">>, <<"card">>, <<"payment">>,
       <<"login">>, <<"security">>, <<"transaction">>, <<"banking">>,
       <<"online">>, <<"mobile">>, <<"password">>, <<"global", " ", "trust">>,
       <<"bank">>, <<"help">>, <<"support">> >>

\* The increment one keyword adds to the ranking score: 0.1.
KeywordBonus == 10

RECURSIVE ReduceKeywords(_, _)
ReduceKeywords(kws, text) ==
    IF kws = <<>> THEN 0
    ELSE (IF includes(toLowerCase(text), Head(kws)) THEN KeywordBonus ELSE 0)
         + ReduceKeywords(Tail(kws), text)

getBankingRelevance(text) == ReduceKeywords(bankingKeywords, text)

\* b[i] || 0: 0 for a missing index, for NaN and for 0.
OrZero(b, i) == IF i > Len(b) \/ b[i] = NaN THEN 0 ELSE b[i]

RECURSIVE StoreDot(_, _, _)
StoreDot(a, b, i) ==
    IF i > Len(a) THEN 0
    ELSE Plus(Mul(a[i], OrZero(b, i)), StoreDot(a, b, i + 1))

\* A truth value that takes 0 for true.
TruthyEvenZero(x) == x # NaN

\* The truth value of a number: 0 and NaN are falsy.
Truthy(x) == x # 0 /\ x # NaN

\* SimpleVectorStore.cosineSimilarity on two arrays.
StoreCosine(a, b) ==
    LET dot == StoreDot(a, b, 1)
        normA == Sqrt(SumSq(a))
        normB == Sqrt(SumSq(b))
    IN  IF Truthy(normA) /\ Truthy(normB) THEN Quotient(dot, normA, normB) ELSE 0

\* Reading an index or a method of undefined throws a TypeError.
StoreCosineThrows(a, b) == ~a.def \/ ~b.def

\* Comparison of doubles: false as soon as an operand is NaN.
Geq(x, y) == x # NaN /\ y # NaN /\ x >= y
Gt(x, y) == x # NaN /\ y # NaN /\ x > y

\* Array.prototype.filter
FilterSeq(s, Keep(_)) ==
    LET idx == {i \in 1..Len(s) : Keep(s[i])}
    IN  [p \in 1..Cardinality(idx) |->
            s[CHOOSE i \in idx : Cardinality({j \in idx : j <= i}) = p]]

\* Array.prototype.sort with a comparator: a stable sort (ECMAScript 2019).
\* Entry i goes behind every entry the comparator puts before it and behind
\* the earlier entries it compares equal to.
sort(s, Cmp(_, _)) ==
    LET pos(i) == 1 + Cardinality({j \in 1..Len(s) : Cmp(s[j], s[i]) < 0})
                    + Cardinality({j \in 1..(i - 1) : Cmp(s[j], s[i]) = 0})
    IN  [p \in 1..Len(s) |-> s[CHOOSE i \in 1..Len(s) : pos(i) = p]]

\* Array.prototype.slice(0, k) for k >= 0
slice(s, k) == SubSeq(s, 1, IF k < Len(s) THEN k ELSE Len(s))

\* new Document({pageContent, metadata}); id stands for the object's identity.
Document(id, pageContent, metadata) ==
    [id |-> id, pageContent |-> pageContent, metadata |-> metadata]

\* SimpleVectorStore.addVectors
addVectors(vs, docs) ==
    /\ vectors' = vectors \o vs
    /\ documents' = documents \o docs

\* this.vectors[index]: undefined beyond the end of the array.
VectorAt(index) == IF index <= Len(vectors) THEN vectors[index] ELSE Undefined

\* similaritySearch throws when it computes a similarity with undefined.
similaritySearchThrows(queryVector) ==
    \E index \in 1..Len(documents) :
        StoreCosineThrows(queryVector, VectorAt(index))

\* Ranked with the entries left in insertion order.
RankedUnsorted(queryVector, k, minScore) ==
    LET scores == [index \in 1..Len(documents) |->
                    [score |-> StoreCosine(queryVector.c, VectorAt(index).c),
                     doc |-> documents[index],
                     relevance |-> getBankingRelevance(documents[index].pageContent)]]
        kept == FilterSeq(scores, LAMBDA e : Geq(e.score, minScore))
    IN  slice(kept, k)

\* Ranked with the threshold applied to the ranking score.
RankedFilterOnRank(queryVector, k, minScore) ==
    LET scores == [index \in 1..Len(documents) |->
                    [score |-> StoreCosine(queryVector.c, VectorAt(index).c),
                     doc |-> documents[index],
                     relevance |-> getBankingRelevance(documents[index].pageContent)]]
        kept == FilterSeq(scores, LAMBDA e : Geq(e.score + e.relevance, minScore))
        sorted == sort(kept, LAMBDA a, b :
                        (b.score + b.relevance) - (a.score + a.relevance))
    IN  slice(sorted, k)

\* The entries a search of rag.js keeps, in the order it returns them.
Ranked(queryVector, k, minScore) ==
    LET scores == [index \in 1..Len(documents) |->
                    [score |-> StoreCosine(queryVector.c, VectorAt(index).c),
                     doc |-> documents[index],
                     relevance |-> getBankingRelevance(documents[index].pageContent)]]
        kept == FilterSeq(scores, LAMBDA e : Geq(e.score, minScore))
        sorted == sort(kept, LAMBDA a, b :
                        (b.score + b.relevance) - (a.score + a.relevance))
    IN  slice(sorted, k)

\* SimpleVectorStore.similaritySearch of rag.js: the documents.
similaritySearch(queryVector, k, minScore) ==
    LET ranked == Ranked(queryVector, k, minScore)
    IN  [i \in 1..Len(ranked) |-> ranked[i].doc]

\* SimpleVectorStore.similaritySearch of the revision without keywords:
\* the {score, doc} entries, ordered by the similarity alone.
similaritySearchScored(queryVector, k, minScore) ==
    LET scores == [index \in 1..Len(documents) |->
                    [score |-> StoreCosine(queryVector.c, VectorAt(index).c),
                     doc |-> documents[index]]]
        kept == FilterSeq(scores, LAMBDA e : Geq(e.score, minScore))
        sorted == sort(kept, LAMBDA a, b : b.score - a.score)
    IN  slice(sorted, k)

----------------------------------------------------------------------------
(* The embedding gateway and IntentRecognizer (rag.js) *)

\* What one call of the embedding service comes to.  getEmbedding returns the
\* array of the body, returns undefined when the body of a success answer has
\* no embedding, and throws an Error on a status that is not a success.
EmbedOk(v) == [ok |-> TRUE, value |-> v]
EmbedFailed == [ok |-> FALSE, value |-> Undefined]

\* An answer of the embedding service: whether its status is a success, and
\* the embedding field of its body, Undefined when the body has none.
EmbedAnswer(ok, embedding) == [ok |-> ok, embedding |-> embedding]

\* getEmbedding, given the answer of the service: it throws on a status that
\* is not a success and returns data.embedding as it is otherwise.
getEmbedding(answer) ==
    IF ~answer.ok THEN EmbedFailed ELSE EmbedOk(answer.embedding)

\* JavaScript's null, as the name of no intent.
null == <<"<null>">>

\* Map.prototype.set: a present key keeps its place, a new key goes last.
MapSetKeepsFirst(m, key, value) ==
    IF \E i \in 1..Len(m) : m[i].name = key THEN m
    ELSE Append(m, [name |-> key] @@ value)
MapSet(m, key, value) ==
    IF \E i \in 1..Len(m) : m[i].name = key
    THEN [i \in 1..Len(m) |-> IF m[i].name = key THEN [name |-> key] @@ value ELSE m[i]]
    ELSE Append(m, [name |-> key] @@ value)

MapHas(m, key) == \E i \in 1..Len(m) : m[i].name = key
MapGet(m, key) == m[CHOOSE i \in 1..Len(m) : m[i].name = key]

\* e[i]: undefined beyond the end of the array, and sum + undefined is NaN.
ElemOrNaN(e, i) == IF i > Len(e) THEN NaN ELSE e[i]

\* embeddings.reduce((sum, e) => sum + e[i], 0)
RECURSIVE ReduceColumn(_, _)
ReduceColumn(embeddings, i) ==
    IF embeddings = <<>> THEN 0
    ELSE Plus(ElemOrNaN(Head(embeddings).c, i), ReduceColumn(Tail(embeddings), i))

\* sum / embeddings.length
Mean(sum, n) == IF sum = NaN THEN NaN ELSE sum \div n

\* The element-wise mean over the indices of the first embedding.
averageEmbedding(embeddings) ==
    [i \in 1..Len(embeddings[1].c) |->
        Mean(ReduceColumn(embeddings, i), Len(embeddings))]

\* The error addIntent ends with, "none" when it registers the intent.
\* Promise.all rejects with the Error of a failed embedding call; the centroid
\* throws a TypeError on embeddings[0] of an empty list and on undefined.
addIntentError(responses) ==
    IF \E j \in 1..Len(responses) : ~responses[j].ok THEN "Error"
    ELSE IF Len(responses) = 0 THEN "TypeError"
    ELSE IF ~responses[1].value.def THEN "TypeError"
    ELSE IF /\ Len(responses[1].value.c) > 0
            /\ \E j \in 1..Len(responses) : ~responses[j].value.def THEN "TypeError"
    ELSE "none"

\* IntentRecognizer.addIntent: the Map after the call, given what the embedding
\* service answered for each example.
addIntent(m, intentName, responses, answer) ==
    IF addIntentError(responses) # "none" THEN m
    ELSE MapSet(m, intentName,
                [embedding |-> averageEmbedding([j \in 1..Len(responses) |->
                                                    responses[j].value]),
                 answer |-> answer])

RECURSIVE IntentDot(_, _, _)
IntentDot(a, b, i) ==
    IF i > Len(a) THEN 0
    ELSE Plus(Mul(a[i], ElemOrNaN(b, i)), IntentDot(a, b, i + 1))

\* IntentRecognizer.cosineSimilarity on two arrays.
IntentCosine(a, b) ==
    LET dot == IntentDot(a, b, 1)
        normA == Sqrt(SumSq(a))
        normB == Sqrt(SumSq(b))
    IN  IF Truthy(normA) /\ Truthy(normB) THEN Quotient(dot, normA, normB) ELSE 0

\* The initial bestMatch.score: -1.
NoMatchScore == -100

\* The loop of detectIntent over the entries from position i on.
RECURSIVE BestMatchFrom(_, _, _, _)
BestMatchFrom(m, queryEmbedding, i, bestMatch) ==
    IF i > Len(m) THEN bestMatch
    ELSE LET score == IntentCosine(queryEmbedding, m[i].embedding)
         IN  BestMatchFrom(m, queryEmbedding, i + 1,
                           IF Gt(score, bestMatch.score)
                           THEN [name |-> m[i].name, score |-> score]
                           ELSE bestMatch)

\* What detectIntent returns: none, or the best match {name, score}.
None == [none |-> TRUE, name |-> null, score |-> NoMatchScore]
Some(bestMatch) == [none |-> FALSE, name |-> bestMatch.name, score |-> bestMatch.score]

\* detectIntent throws the Error of a failed embedding call, and a TypeError
\* when it computes a similarity with an undefined query embedding.
detectIntentError(m, response) ==
    IF ~response.ok THEN "Error"
    ELSE IF ~response.value.def /\ Len(m) > 0 THEN "TypeError"
    ELSE "none"

\* IntentRecognizer.detectIntent, given what the embedding service answered.
detectIntent(m, response, threshold) ==
    LET bestMatch == BestMatchFrom(m, response.value.c, 1,
                                   [name |-> null, score |-> NoMatchScore])
    IN  IF Geq(bestMatch.score, threshold) THEN Some(bestMatch) ELSE None

\* The tokens the pattern \W matches.
NonWordToks == {" ", "?", "!", ".", ",", ":", "(", ")", "-", "\n"}

\* The rest of a text behind its leading run of \W tokens.
RECURSIVE SkipNonWord(_)
SkipNonWord(text) ==
    IF text # <<>> /\ Head(text) \in NonWordToks THEN SkipNonWord(Tail(text)) ELSE text

\* text.replace(/\W+/g, '_')
RECURSIVE ReplaceNonWord(_)
ReplaceNonWord(text) ==
    IF text = <<>> THEN <<>>
    ELSE IF Head(text) \in NonWordToks
         THEN <<"_">> \o ReplaceNonWord(SkipNonWord(text))
         ELSE <<Head(text)>> \o ReplaceNonWord(Tail(text))

\* The name addFAQIntent registers a question under.
FaqIntentName(question) == <<"faq_">> \o ReplaceNonWord(toLowerCase(question))

\* IntentRecognizer.addFAQIntent: the intents and the faqData after the call.
addFAQIntent(m, f, question, response, answer) ==
    [intents |-> addIntent(m, FaqIntentName(question), <<response>>, answer),
     faqData |-> IF addIntentError(<<response>>) # "none" THEN f
                 ELSE MapSet(f, FaqIntentName(question),
                             [question |-> question, answer |-> answer])]

\* The thresholds the revisions give detectIntent by default: 0.75 and 0.85.
DefaultThreshold == 75
DefaultThresholdScored == 85

----------------------------------------------------------------------------
(* Strings of the request handler (server.js, part_003) *)

\* Characters outside ASCII, by code point.
Bullet == "<U+2022>"
Triangle == "<U+27A2>"
Emoji == "<U+1F600>"

Whitespace == {" ", NL}

RECURSIVE trimStart(_)
trimStart(text) ==
    IF text # <<>> /\ Head(text) \in Whitespace THEN trimStart(Tail(text)) ELSE text

RECURSIVE trimEnd(_)
trimEnd(text) ==
    IF text # <<>> /\ text[Len(text)] \in Whitespace
    THEN trimEnd(SubSeq(text, 1, Len(text) - 1))
    ELSE text

\* String.prototype.trim
trim(text) == trimEnd(trimStart(text))

\* The position of the first line break of a text that has one.
FirstBreak(text) ==
    CHOOSE i \in 1..Len(text) : text[i] = NL /\ \A j \in 1..(i - 1) : text[j] # NL

\* text.split("\n"): the lines of a text, one line for the empty text.
RECURSIVE split(_)
split(text) ==
    IF \A i \in 1..Len(text) : text[i] # NL THEN <<text>>
    ELSE <<SubSeq(text, 1, FirstBreak(text) - 1)>>
         \o split(SubSeq(text, FirstBreak(text) + 1, Len(text)))

\* lines.join(separator)
RECURSIVE join(_, _)
join(lines, separator) ==
    IF lines = <<>> THEN <<>>
    ELSE IF Len(lines) = 1 THEN lines[1]
    ELSE lines[1] \o separator \o join(Tail(lines), separator)

\* The loop of chunkLines from the line at position i (counted from 1).
RECURSIVE ChunksFrom(_, _, _)
ChunksFrom(lines, i, maxLines) ==
    IF i > Len(lines) THEN <<>>
    ELSE LET last == IF i + maxLines - 1 < Len(lines) THEN i + maxLines - 1
                     ELSE Len(lines)
         IN  <<join(SubSeq(lines, i, last), <<NL>>)>>
             \o ChunksFrom(lines, i + maxLines, maxLines)

\* chunkLines(lines, maxLines): the lines in groups of maxLines, each joined.
chunkLinesFirstGroupOnly(lines, maxLines) ==
    <<join(SubSeq(lines, 1, IF maxLines < Len(lines) THEN maxLines ELSE Len(lines)),
           <<NL>>)>>
chunkLines(lines, maxLines) == ChunksFrom(lines, 1, maxLines)

\* The group size the handler passes to chunkLines.
ChunkSize == 4

\* .replace(/\[INST\].*\[\/INST\]/gs, ''): from the first [INST] to the last
\* [/INST] behind it.
removeInstEcho(text) ==
    LET opens == {i \in 1..Len(text) : text[i] = "[INST]"}
        first == CHOOSE i \in opens : \A j \in opens : i <= j
        closes == {j \in 1..Len(text) : text[j] = "[/INST]" /\ j > first}
        last == CHOOSE j \in closes : \A i \in closes : i <= j
    IN  IF opens = {} \/ closes = {} THEN text
        ELSE SubSeq(text, 1, first - 1) \o SubSeq(text, last + 1, Len(text))

\* The positions of s, in order, whose element a test does not drop.
Kept(s, Drop(_)) ==
    LET kept == {i \in 1..Len(s) : ~Drop(s[i])}
        nth(n) == CHOOSE i \in kept : Cardinality({j \in kept : j <= i}) = n
    IN  [n \in 1..Cardinality(kept) |-> nth(n)]

\* .replace(/^<start>[^\n]*\n?/gim, ''): a line the test matches goes with its
\* line break; the last line has none, and leaves an empty line.
removeLines(text, Drop(_)) ==
    LET lines == split(text)
        n == Len(lines)
        front == SubSeq(lines, 1, n - 1)
        kept == Kept(front, Drop)
    IN  join([i \in 1..Len(kept) |-> front[kept[i]]]
             \o <<IF Drop(lines[n]) THEN <<>> ELSE lines[n]>>, <<NL>>)

\* Whether a line begins, in any case, with hello, hi, hey or greetings: a test
\* on characters, which the word History passes.
StartsWithGreeting(line) ==
    /\ line # <<>>
    /\ LowerTok(line[1]) \in {"hello", "hi", "hey", "greetings", "history"}

\* Whether a line begins with "it seems like" or "it looks like".
StartsWithHedge(line) ==
    /\ Len(line) >= 5
    /\ toLowerCase(SubSeq(line, 1, 5)) \in
          {<<"it", " ", "seems", " ", "like">>, <<"it", " ", "looks", " ", "like">>}

\* .replace(/[\u{1F300}-\u{1FAFF}]/gu, '')
removeEmojis(text) ==
    LET kept == Kept(text, LAMBDA t : t = Emoji)
    IN  [i \in 1..Len(kept) |-> text[kept[i]]]

\* .replace(/([*\-<U+27A2>])/g, bullet), inside words as well.
BulletTok(t) ==
    CASE t \in {"*", "-", Triangle} -> Bullet
      [] t = "e-mail" -> "e<U+2022>mail"
      [] OTHER -> t

standardizeBullets(text) == [i \in 1..Len(text) |-> BulletTok(text[i])]

\* The position of the first line break at or behind position p, 0 without one.
BreakFrom(text, p) ==
    IF \E i \in p..Len(text) : text[i] = NL
    THEN CHOOSE i \in p..Len(text) :
            text[i] = NL /\ \A j \in p..(i - 1) : text[j] # NL
    ELSE 0

\* The last position of the run of line breaks that starts at position r.
BreakRunEnd(text, r) ==
    CHOOSE e \in r..Len(text) :
        /\ \A j \in r..e : text[j] = NL
        /\ (e = Len(text) \/ text[e + 1] # NL)

\* .replace(/(<bullet>\s.*?)(\n+)(<bullet>)/g, '$1\n$3') from position p on: a
\* bullet and a blank, the rest of the line, the line breaks behind it and the
\* bullet that follows them become the line, one line break and the bullet.
\* The search goes on behind that bullet.
RECURSIVE tightenListItems(_, _)
tightenListItems(text, p) ==
    IF p > Len(text) THEN <<>>
    ELSE LET r == BreakFrom(text, p + 2)
             e == BreakRunEnd(text, r)
             found == /\ text[p] = Bullet
                      /\ p + 1 <= Len(text) /\ text[p + 1] \in Whitespace
                      /\ r # 0
                      /\ e + 1 <= Len(text) /\ text[e + 1] = Bullet
         IN  IF found
             THEN SubSeq(text, p, r - 1) \o <<NL, Bullet>>
                  \o tightenListItems(text, e + 2)
             ELSE <<text[p]>> \o tightenListItems(text, p + 1)

\* Whether a token holds the bullet character.
HasBullet(t) == t \in {Bullet, "e<U+2022>mail"}

\* .replace(/(<bullet>.*\n)([^\n<bullet>])/g, '$1\n\n$2') from position p on:
\* two line breaks more behind a line that holds a bullet, when the next line
\* begins with neither a line break nor a bullet.
RECURSIVE spaceAfterList(_, _)
spaceAfterList(text, p) ==
    IF p > Len(text) THEN <<>>
    ELSE LET r == BreakFrom(text, p + 1)
             found == /\ HasBullet(text[p])
                      /\ r # 0
                      /\ r + 1 <= Len(text) /\ text[r + 1] \notin {NL, Bullet}
         IN  IF found
             THEN SubSeq(text, p, r) \o <<NL, NL>> \o spaceAfterList(text, r + 1)
             ELSE <<text[p]>> \o spaceAfterList(text, p + 1)

\* .replace(/\n{3,}/g, '\n\n') from position p on.
RECURSIVE squeezeBreaks(_, _)
squeezeBreaks(text, p) ==
    IF p > Len(text) THEN <<>>
    ELSE IF text[p] # NL THEN <<text[p]>> \o squeezeBreaks(text, p + 1)
    ELSE LET e == BreakRunEnd(text, p)
         IN  (IF e - p + 1 >= 3 THEN <<NL, NL>> ELSE SubSeq(text, p, e))
             \o squeezeBreaks(text, e + 1)

\* The width behind which a blank becomes a line break.
WrapWidth == 120

\* A word of WrapWidth characters, such as a long link.
LongWord == "<a word of 120 characters>"

\* The length a section of a file has to exceed to become a chunk.
MinSectionLength == 50

\* A word of n characters, and the lengths around MinSectionLength.
WordOf(n) == "<a word of " \o ToString(n) \o " characters>"
SectionSizes == (MinSectionLength - 3)..(MinSectionLength + 1)

\* The mark of a heading: "# ", "## ", ...
Hash == "# "

\* The number of characters of a token.
CharLen(t) ==
    CASE t = LongWord -> WrapWidth
      [] \E n \in SectionSizes : t = WordOf(n) -> CHOOSE n \in SectionSizes : t = WordOf(n)
      [] t = Hash -> 2
      [] t \in {"Settings", "Security"} -> 8
      [] t = "History" -> 7
      [] t \in {"Second", "Change"} -> 6
      [] t \in {"Hello", "First", "there", "seems", "rainy"} -> 5
      [] t \in {"Done", "like", "more"} -> 4
      [] t = "It" -> 2
      [] OTHER -> 1

\* .replace(/(.{120,}?)\s/g, '$1\n') from position p on, col characters behind
\* the last line break or replacement: the first blank that has WrapWidth
\* characters or more of its line before it becomes a line break.
RECURSIVE wrapLongLines(_, _, _)
wrapLongLines(text, p, col) ==
    IF p > Len(text) THEN <<>>
    ELSE IF text[p] = NL THEN <<NL>> \o wrapLongLines(text, p + 1, 0)
    ELSE IF text[p] = " "
         THEN IF col >= WrapWidth
              THEN <<NL>> \o wrapLongLines(text, p + 1, 0)
              ELSE <<" ">> \o wrapLongLines(text, p + 1, col + 1)
    ELSE <<text[p]>> \o wrapLongLines(text, p + 1, col + CharLen(text[p]))

\* The clean-up generateDynamicAnswer makes of the generated text.
cleanUp(response) ==
    LET unwrapped == trim(removeInstEcho(response))
        noGreeting == removeLines(unwrapped, StartsWithGreeting)
        noHedge == removeLines(noGreeting, StartsWithHedge)
        bullets == standardizeBullets(removeEmojis(noHedge))
        tight == tightenListItems(bullets, 1)
        spaced == spaceAfterList(tight, 1)
    IN  trim(wrapLongLines(squeezeBreaks(spaced, 1), 1, 0))

----------------------------------------------------------------------------
(* The services the program calls: embedding and generation *)

Arrow == "<U+2192>"

\* A phrase: its words with one blank between them.
Words(ws) == join([i \in 1..Len(ws) |-> <<ws[i]>>], <<" ">>)

\* The vector the embedding service gives a text.  It places the texts the
\* model uses the way an embedding model places them: a question near the
\* examples and the passages about its subject, far from the others.
EmbeddingOf(text) ==
    LET has(w) == includes(toLowerCase(text), <<w>>)
    IN  IF has("password") THEN <<1, 0>>
        ELSE IF has("account") \/ has("balance") THEN <<4, 3>>
        ELSE IF has("transfer") \/ has("money") THEN <<3, 4>>
        ELSE IF has("card") THEN <<0, 1>>
        ELSE IF has("hours") THEN <<-1, 0>>
        ELSE IF has("branches") THEN <<-4, -3>>
        ELSE IF has("fees") THEN <<-3, -4>>
        ELSE <<3, -4>>

\* What a call of getEmbedding can end with: the vector, undefined when the
\* service's answer has no embedding field, or the Error of a non-2xx answer.
EmbedAnswers(text) ==
    {EmbedAnswer(TRUE, Arr(EmbeddingOf(text))), EmbedAnswer(TRUE, Undefined),
     EmbedAnswer(FALSE, Undefined)}
EmbedResponses(text) == {getEmbedding(answer) : answer \in EmbedAnswers(text)}

\* An answer of the generation service.
NoReply == [kind |-> "none", status |-> "", response |-> <<>>, body |-> <<>>]
ReplyOk(text) == [kind |-> "ok", status |-> "200", response |-> text, body |-> <<>>]
ReplyNoField == [kind |-> "noField", status |-> "200", response |-> <<>>, body |-> <<>>]
ReplyStatus(status, body) ==
    [kind |-> "status", status |-> status, response |-> <<>>, body |-> body]
ReplyNetwork == [kind |-> "network", status |-> "", response |-> <<>>, body |-> <<>>]
\* The service accepts the call and never answers it.
ReplyHang == [kind |-> "hang", status |-> "", response |-> <<>>, body |-> <<>>]

PlainAnswer == <<"Settings", Arrow, "Security">>
ListAnswer ==
    <<"Hello", " ", "there", NL, "*", " ", "First", NL, NL, "*", " ", "Second", NL, "Done">>
LongAnswer == <<"First", NL, "Second", NL, LongWord, " ", "more", NL, "Done", NL, "Done">>
GreetingOnly == <<"Hello">>
ErrorLine == <<"Service", " ", "Unavailable">>
ErrorPage ==
    <<"<html>", NL, "<head>", NL, "</head>", NL, "<body>", NL, "Bad", " ", "Gateway", NL,
      "</body>">>

GenReplies ==
    {ReplyOk(PlainAnswer), ReplyOk(ListAnswer), ReplyOk(LongAnswer), ReplyOk(GreetingOnly),
     ReplyNoField, ReplyStatus("503", ErrorLine), ReplyStatus("502", ErrorPage),
     ReplyNetwork, ReplyHang}

----------------------------------------------------------------------------
(* generateDynamicAnswer (server.js, part_003) *)

\* The text the catch of generateDynamicAnswer returns for an error message.
Fallback(message) == <<"Let's try a different approach... (">> \o message \o <<")">>

\* The message of the Error thrown for a non-2xx answer.
StatusError(reply) == <<"Ollama API error: ", reply.status, " - ">> \o reply.body

\* generateDynamicAnswer of server.js, given the answer of the generation
\* service: the cleaned text, or the fallback text for whatever was thrown.
generateDynamicAnswer(reply) ==
    IF reply.kind = "network" THEN Fallback(<<"request to the generation service failed">>)
    ELSE IF reply.kind = "status" THEN Fallback(StatusError(reply))
    ELSE IF reply.kind = "noField" \/ reply.response = <<>>
         THEN Fallback(<<"Invalid response format from Ollama">>)
    ELSE cleanUp(reply.response)

\* JSON.stringify of a string's characters: a line break becomes an escape.
Escaped(t) == IF t = NL THEN "\\n" ELSE t

\* One line of a streamed answer: an object carrying one piece of the text.
StreamLine(piece) == <<"{\"response\":\"", Escaped(piece), "\",\"done\":false}", NL>>

\* The body of a streamed answer: one line for each piece, and the closing line.
RECURSIVE StreamBody(_)
StreamBody(response) ==
    IF response = <<>> THEN <<"{\"response\":\"\",\"done\":true}", NL>>
    ELSE StreamLine(Head(response)) \o StreamBody(Tail(response))

\* generateDynamicAnswer of part_003: the chunks of the body are concatenated
\* as they are read, and the concatenation is cleaned.
generateDynamicAnswerStream(reply) ==
    IF reply.kind = "network" THEN Fallback(<<"request to the generation service failed">>)
    ELSE IF reply.kind = "status" THEN Fallback(StatusError(reply))
    ELSE IF reply.kind = "noField" THEN cleanUp(<<"{\"done\":true}", NL>>)
    ELSE cleanUp(StreamBody(reply.response))

\* The messages the handler writes for an answer text.
Msg(text) == [field |-> "message", text |-> text]
Resp(text) == [field |-> "response", text |-> text]
compactMessages(answer) ==
    LET chunks == chunkLines(split(answer), ChunkSize)
    IN  [i \in 1..Len(chunks) |-> Msg(chunks[i])]

----------------------------------------------------------------------------
(* Start-up: setupVectorStore and initializeSystem *)

\* The revisions of the server and of the rag module the repository holds.
Servers == {"first", "second", "streaming"}
Rags == {"rag.js", "part_004"}

\* The intents setupBankingIntents registers, in its order.
SeedIntents ==
    << [name |-> <<"password_change">>,
        examples |-> << Words(<<"how", "do", "I", "change", "my", "password">>),
                        Words(<<"change", "password">>),
                        Words(<<"reset", "password">>),
                        Words(<<"update", "password">>) >>,
        answer |-> <<"Settings", Arrow, "Security", Arrow, "Change Password">>],
       [name |-> <<"account_info">>,
        examples |-> << Words(<<"how", "do", "I", "check", "my", "account", "balance">>),
                        Words(<<"view", "my", "account">>),
                        Words(<<"account", "information">>),
                        Words(<<"check", "balance">>) >>,
        answer |-> <<"Login", Arrow, "MyAccounts", Arrow, "Balance">>],
       [name |-> <<"transfer_money">>,
        examples |-> << Words(<<"how", "do", "I", "transfer", "money">>),
                        Words(<<"send", "money">>),
                        Words(<<"make", "a", "transfer">>),
                        Words(<<"transfer", "funds">>) >>,
        answer |-> <<"Login", Arrow, "Transfers", Arrow, "NewTransfer">>],
       [name |-> <<"card_services">>,
        examples |-> << Words(<<"credit", "card", "issues">>),
                        Words(<<"debit", "card", "help">>),
                        Words(<<"card", "services">>),
                        Words(<<"block", "my", "card">>) >>,
        answer |-> <<"Login", Arrow, "Cards", Arrow, "Manage">>] >>

\* The files of the knowledge directory, as the entries loadFile finds in them.
FaqQuestion == <<"What", " ", "are", " ", "the", " ", "fees", "?">>
FaqAnswer == <<"No", " ", "fees">>
GuideText == Words(<<"Our", "branches", "open", "at", "nine">>)
FaqFile == [name |-> "faq.txt", pairs |-> <<[question |-> FaqQuestion, answer |-> FaqAnswer]>>,
            sections |-> <<>>, corrupt |-> FALSE]
GuideFile == [name |-> "guide.md", pairs |-> <<>>, sections |-> <<GuideText>>,
              corrupt |-> FALSE]
\* The sections of a file are the chunks splitText makes of its text.
\* A file whose reading or parsing throws.
CorruptFile == [name |-> "rates.pdf", pairs |-> <<>>,
                sections |-> <<Words(<<"Our", "fees", "and", "rates">>)>>, corrupt |-> TRUE]
KnowledgeDirs == {<<>>, <<FaqFile>>, <<CorruptFile, GuideFile, FaqFile>>}

\* loadFile of rag.js: a qa chunk for each pair of faq.txt, a content chunk
\* for each section of another file; whatever is thrown is caught and gives
\* no chunk.
loadFile(file) ==
    IF file.corrupt THEN <<>> ELSE
    [i \in 1..Len(file.pairs) |->
        [pageContent |-> <<"Question:", " ">> \o file.pairs[i].question
                         \o <<NL, "Answer:", " ">> \o file.pairs[i].answer,
         metadata |-> [source |-> "FAQ", type |-> "qa",
                       question |-> file.pairs[i].question,
                       answer |-> file.pairs[i].answer]]]
    \o [i \in 1..Len(file.sections) |->
        [pageContent |-> file.sections[i],
         metadata |-> [source |-> file.name, type |-> "content"]]]

\* loadFile of part_004: a chunk for each pair and each section, marked isQA
\* when it begins with "Q:"; whatever is thrown is caught and gives no chunk.
loadFileScored(file) ==
    IF file.corrupt THEN <<>> ELSE
    [i \in 1..Len(file.pairs) |->
        [pageContent |-> <<"Q:", " ">> \o file.pairs[i].question
                         \o <<" ", "A:", " ">> \o file.pairs[i].answer,
         metadata |-> [source |-> file.name, isQA |-> TRUE]]]
    \o [i \in 1..Len(file.sections) |->
        [pageContent |-> file.sections[i],
         metadata |-> [source |-> file.name, isQA |-> FALSE]]]

\* The chunks of a directory in the order setupVectorStore meets them.
RECURSIVE LoadAllUntilFailure(_, _)
LoadAllUntilFailure(files, r) ==
    IF files = <<>> \/ Head(files).corrupt THEN <<>>
    ELSE (IF r = "rag.js" THEN loadFile(Head(files)) ELSE loadFileScored(Head(files)))
         \o LoadAllUntilFailure(Tail(files), r)

RECURSIVE LoadAll(_, _)
LoadAll(files, r) ==
    IF files = <<>> THEN <<>>
    ELSE (IF r = "rag.js" THEN loadFile(Head(files)) ELSE loadFileScored(Head(files)))
         \o LoadAll(Tail(files), r)

\* Whether setupVectorStore registers a FAQ intent for a chunk.
IsQa(doc) == rag = "rag.js" /\ doc.metadata.type = "qa"

NoCall == [op |-> "none"]

\* A request handler at rest.
IdleReq ==
    [pc |-> "idle", question |-> <<>>, ready |-> TRUE, embedded |-> TRUE, intent |-> null,
     context |-> <<>>, reply |-> NoReply, answered |-> <<>>, caught |-> FALSE]

\* The process as it starts: the listener is up, nothing is loaded.
AtRest ==
    /\ init = "start"
    /\ validFiles = <<>> /\ knowledge = <<>> /\ cursor = 0
    /\ seeded = 0 /\ seedsStopped = FALSE
    /\ req = IdleReq /\ out = <<>> /\ ended = 0 /\ log = <<>>
    /\ vectors = <<>> /\ documents = <<>>
    /\ intents = <<>> /\ faqData = <<>>
    /\ calls = 0

Starting == AtRest /\ call = NoCall

----------------------------------------------------------------------------
(* The vector store on its own: any insertions, then one search *)

StoreVecs == {Arr(<<1, 0>>), Arr(<<4, 3>>), Arr(<<3, 4>>), Undefined}
QueryVecs == {Arr(<<1, 0>>), Arr(<<0, 0>>)}
MinScores == {0, 60, 75}
PlainText == <<"opening", " ", "hours">>
KeywordText == <<"Card", " ", "payment", " ", "online">>
Contents == {PlainText, KeywordText}

InitStore ==
    /\ server = "second"
    /\ rag = "rag.js"
    /\ Starting

StoreInsert ==
    \E v \in StoreVecs, c \in Contents :
        /\ call = NoCall
        /\ Len(documents) < MaxDocs
        /\ addVectors(<<v>>,
                      <<Document(Len(documents) + 1, c,
                                 [source |-> "kb.txt", type |-> "content"])>>)
        /\ UNCHANGED <<intentVars, call, calls, serverVars>>

StoreSearch ==
    \E q \in QueryVecs, k \in 0..MaxK, m \in MinScores :
        /\ call = NoCall
        /\ call' = [op |-> "similaritySearch", queryVector |-> q, k |-> k,
                    minScore |-> m, size |-> Len(documents),
                    threw |-> similaritySearchThrows(q),
                    out |-> IF similaritySearchThrows(q) THEN <<>>
                            ELSE similaritySearch(q, k, m)]
        /\ UNCHANGED <<storeVars, intentVars, calls, serverVars>>

StoreSearchScored ==
    \E q \in QueryVecs, k \in 0..MaxK, m \in MinScores :
        /\ call = NoCall
        /\ call' = [op |-> "similaritySearchScored", queryVector |-> q, k |-> k,
                    minScore |-> m, size |-> Len(documents),
                    threw |-> similaritySearchThrows(q),
                    out |-> IF similaritySearchThrows(q) THEN <<>>
                            ELSE similaritySearchScored(q, k, m)]
        /\ UNCHANGED <<storeVars, intentVars, calls, serverVars>>

NextStore == StoreInsert \/ StoreSearch \/ StoreSearchScored

SpecStore == InitStore /\ [][NextStore]_vars

----------------------------------------------------------------------------
(* Claims about the vector store *)

IsSearch == call.op \in {"similaritySearch", "similaritySearchScored"} /\ ~call.threw

\* The document at position i of the last search's result.
OutDoc(i) == IF call.op = "similaritySearch" THEN call.out[i] ELSE call.out[i].doc

\* The raw similarity of a stored document to the last search's query; in this
\* specification a document's id is its insertion index.
RawScore(doc) == StoreCosine(call.queryVector.c, vectors[doc.id].c)

\* The ranking score: the similarity, plus the keyword bonus where the store
\* has keywords.
RankScore(doc) ==
    RawScore(doc) + (IF call.op = "similaritySearch"
                     THEN getBankingRelevance(doc.pageContent) ELSE 0)

\* C4: a search returns at most k results, each of raw similarity >= minScore,
\* in descending order of ranking score, and results of equal ranking score
\* are in insertion order.
C4_SearchBoundedFilteredSorted ==
    IsSearch =>
        /\ Len(call.out) <= call.k
        /\ \A i \in 1..Len(call.out) : RawScore(OutDoc(i)) >= call.minScore
        /\ \A i, j \in 1..Len(call.out) :
              i < j =>
                 /\ RankScore(OutDoc(i)) >= RankScore(OutDoc(j))
                 /\ RankScore(OutDoc(i)) = RankScore(OutDoc(j))
                       => OutDoc(i).id < OutDoc(j).id

\* A search of three entries that returned two: the bonus put a later entry
\* first, or let two entries tie.
C4_Witness ==
    /\ call.op = "similaritySearch" /\ ~call.threw
    /\ call.size = 3 /\ call.k = 2 /\ Len(call.out) = 2
    /\ RawScore(call.out[1]) < RawScore(call.out[2])
    /\ \E d \in {documents[i] : i \in 1..call.size} :
          /\ d.id \notin {call.out[1].id, call.out[2].id}
          /\ RankScore(d) = RankScore(call.out[2])
          /\ d.id > call.out[2].id

\* The stored entries whose raw similarity passes the threshold of the last search.
Qualifying == {i \in 1..call.size : RawScore(documents[i]) >= call.minScore}

\* C5: the keyword bonus decides the order only.  The results are drawn from
\* the entries of raw similarity >= minScore, whatever their keywords, and
\* nothing but the cut-off at k removes such an entry.
C5_BonusNeverDecidesMembership ==
    (call.op = "similaritySearch" /\ ~call.threw) =>
        /\ {call.out[i].id : i \in 1..Len(call.out)} \subseteq Qualifying
        /\ Len(call.out) = (IF call.k < Cardinality(Qualifying)
                            THEN call.k ELSE Cardinality(Qualifying))
        /\ \A i, j \in 1..Len(call.out) : i # j => call.out[i].id # call.out[j].id

\* A search that left out an entry full of keywords whose similarity is below
\* minScore although its ranking score is above, and returned an entry
\* without any keyword.
C5_Witness ==
    /\ call.op = "similaritySearch" /\ ~call.threw
    /\ \E i \in 1..call.size :
          /\ RawScore(documents[i]) < call.minScore
          /\ RankScore(documents[i]) >= call.minScore
          /\ getBankingRelevance(documents[i].pageContent) >= 3 * KeywordBonus
    /\ \E i \in 1..Len(call.out) :
          getBankingRelevance(call.out[i].pageContent) = 0

----------------------------------------------------------------------------
(* The intent index on its own: any registrations, then one detectIntent *)

ExampleResponses ==
    {EmbedOk(Arr(<<60, 0>>)), EmbedOk(Arr(<<-60, 0>>)), EmbedOk(Arr(<<60>>)),
     EmbedOk(Undefined), EmbedFailed}
QueryAnswers ==
    {EmbedAnswer(TRUE, Arr(<<1, 0>>)), EmbedAnswer(TRUE, Arr(<<4, 3>>)),
     EmbedAnswer(TRUE, Undefined), EmbedAnswer(FALSE, Undefined)}
QueryResponses == {getEmbedding(answer) : answer \in QueryAnswers}
Thresholds == {NoMatchScore, DefaultThreshold, DefaultThresholdScored}
IntentNames == {<<"password_change">>, <<"account_info">>}
\* The answer the n-th registration of a run is given.
AnswerOf(n) == <<"answer", <<"one", "two", "three", "four", "five", "six">>[n]>>
FaqQuestions == {<<"What", " ", "is", " ", "X", "?">>, <<"what", " ", "is", " ", "x", "!">>}

InitIntent == InitStore

IntentAdd ==
    \E intentName \in IntentNames, n \in 0..MaxExamples :
        \E responses \in [1..n -> ExampleResponses] :
            /\ call.op # "detectIntent"
            /\ calls < MaxAdds
            /\ intents' = addIntent(intents, intentName, responses, AnswerOf(calls + 1))
            /\ call' = [op |-> "addIntent", intentName |-> intentName,
                        examples |-> n, answer |-> AnswerOf(calls + 1),
                        error |-> addIntentError(responses)]
            /\ calls' = calls + 1
            /\ UNCHANGED <<storeVars, faqData, serverVars>>

IntentAddFAQ ==
    \E question \in FaqQuestions, response \in ExampleResponses :
        /\ call.op # "detectIntent"
        /\ calls < MaxAdds
        /\ intents' = addFAQIntent(intents, faqData, question, response,
                                   AnswerOf(calls + 1)).intents
        /\ faqData' = addFAQIntent(intents, faqData, question, response,
                                   AnswerOf(calls + 1)).faqData
        /\ call' = [op |-> "addFAQIntent", intentName |-> FaqIntentName(question),
                    question |-> question,
                    replaced |-> MapHas(intents, FaqIntentName(question)),
                    examples |-> 1, answer |-> AnswerOf(calls + 1),
                    error |-> addIntentError(<<response>>)]
        /\ calls' = calls + 1
        /\ UNCHANGED <<storeVars, serverVars>>

IntentDetect ==
    \E answer \in QueryAnswers, threshold \in Thresholds :
      LET response == getEmbedding(answer)
      IN
        /\ call.op # "detectIntent"
        /\ call' = [op |-> "detectIntent", answer |-> answer, response |-> response,
                    threshold |-> threshold,
                    error |-> detectIntentError(intents, response),
                    out |-> IF detectIntentError(intents, response) # "none" THEN None
                            ELSE detectIntent(intents, response, threshold)]
        /\ UNCHANGED <<storeVars, intentVars, calls, serverVars>>

NextIntent == IntentAdd \/ IntentAddFAQ \/ IntentDetect

SpecIntent == InitIntent /\ [][NextIntent]_vars

----------------------------------------------------------------------------
(* Claims about the intent index *)

IsDetect == call.op = "detectIntent" /\ call.error = "none"

\* The similarity of the i-th registered centroid to the last query embedding.
Score(i) == IntentCosine(call.response.value.c, intents[i].embedding)

\* The positions of the centroids no other centroid scores above.
Top == {i \in 1..Len(intents) : \A j \in 1..Len(intents) : ~Gt(Score(j), Score(i))}

\* C6: detectIntent returns the registered intent of the highest similarity
\* if and only if that similarity is >= threshold, and returns none whenever
\* no registered centroid scores >= threshold, an empty index included.
C6_DetectReturnsTopIffAtThreshold ==
    IsDetect =>
        /\ ~call.out.none =>
              \E i \in Top : /\ intents[i].name = call.out.name
                             /\ Score(i) = call.out.score
                             /\ Geq(Score(i), call.threshold)
        /\ (\E i \in Top : Geq(Score(i), call.threshold)) => ~call.out.none
        /\ (\A i \in 1..Len(intents) : ~Geq(Score(i), call.threshold))
              => call.out.none

\* C29: whenever detectIntent returns an intent, whatever the threshold and
\* the index, the empty index included, its name is the key of a stored
\* intent, so that the handler's lookup by that name finds an entry.
C29_DetectedNameIsStored ==
    (IsDetect /\ ~call.out.none) => MapHas(intents, call.out.name)

\* C7: when several registered intents share the highest similarity and that
\* similarity is >= threshold, detectIntent returns the one registered first.
C7_TieReturnsFirstRegistered ==
    (/\ IsDetect
     /\ Cardinality(Top) >= 2
     /\ \A i \in Top : Geq(Score(i), call.threshold))
        => /\ ~call.out.none
           /\ \E i \in Top : /\ intents[i].name = call.out.name
                             /\ \A j \in Top : i <= j

\* C8: addIntent called with an empty list of examples fails with
\* InvalidIntentError and leaves the intent index as it was.
C8_EmptyExamplesInvalidIntentError ==
    [][(call'.op = "addIntent" /\ call'.examples = 0 /\ calls' = calls + 1)
          => (call'.error = "InvalidIntentError" /\ intents' = intents)]_vars

----------------------------------------------------------------------------
(* chunkLines on its own: any lines and any group size *)

\* Lines of one word each, all different, and lines of which every second
\* one is empty.
Numbered(n) == [i \in 1..n |-> <<"line " \o ToString(i)>>]
Gapped(n) == [i \in 1..n |-> IF i % 2 = 0 THEN <<>> ELSE <<"line " \o ToString(i)>>]

InitLines ==
    /\ server = "second"
    /\ rag = "rag.js"
    /\ AtRest
    /\ \E n \in 1..MaxLines, maxLines \in 1..MaxChunk :
          \E lines \in {Numbered(n), Gapped(n)} :
             call = [op |-> "lines", lines |-> lines, maxLines |-> maxLines]

ChunkLines ==
    /\ call.op = "lines"
    /\ call' = [op |-> "chunkLines", lines |-> call.lines, maxLines |-> call.maxLines,
                out |-> chunkLines(call.lines, call.maxLines)]
    /\ UNCHANGED <<storeVars, intentVars, calls, serverVars>>

NextLines == ChunkLines

SpecLines == InitLines /\ [][NextLines]_vars

\* The lines of the messages of the last chunkLines call, from message i on.
RECURSIVE LinesFrom(_)
LinesFrom(i) ==
    IF i > Len(call.out) THEN <<>> ELSE split(call.out[i]) \o LinesFrom(i + 1)

\* C12: chunkLines(lines, N) of L >= 1 lines and N >= 1 gives ceil(L/N)
\* messages; every message but the last holds N lines, the last holds between
\* 1 and N, and the lines are in their original order.
C12_ChunkLinesCeilGroups ==
    call.op = "chunkLines" =>
        LET L == Len(call.lines)
            N == call.maxLines
            count == Len(call.out)
        IN  /\ count = (L + N - 1) \div N
            /\ \A i \in 1..(count - 1) : Len(split(call.out[i])) = N
            /\ Len(split(call.out[count])) \in 1..N
            /\ LinesFrom(1) = call.lines

\* Ten lines in groups of four: messages of 4, 4 and 2 lines.
C12_Witness ==
    /\ call.op = "chunkLines"
    /\ Len(call.lines) = 10 /\ call.maxLines = 4
    /\ Len(call.out) = 3
    /\ <<Len(split(call.out[1])), Len(split(call.out[2])), Len(split(call.out[3]))>>
          = <<4, 4, 2>>
    /\ split(call.out[3]) = <<call.lines[9], call.lines[10]>>

----------------------------------------------------------------------------
(* cosineSimilarity on its own: one call on any two vectors *)

\* The vectors of up to MaxDim components whose norm is 0, 1 or 5.
CosineVecs ==
    {v \in UNION {[1..n -> {0, 1, 3, 4}] : n \in 0..MaxDim} : SumSq(v) \in {0, 1, 25}}

InitCosine ==
    /\ server = "second"
    /\ rag \in {"rag.js", "part_004"}
    /\ AtRest
    /\ \E a \in CosineVecs, b \in CosineVecs :
          call = [op |-> "vectors", a |-> a, b |-> b]

\* SimpleVectorStore.cosineSimilarity(a, b)
CosineOfStore ==
    /\ call.op = "vectors"
    /\ call' = [op |-> "cosineSimilarity", owner |-> "SimpleVectorStore",
                a |-> call.a, b |-> call.b, out |-> StoreCosine(call.a, call.b)]
    /\ UNCHANGED <<storeVars, intentVars, calls, serverVars>>

\* IntentRecognizer.cosineSimilarity(a, b)
CosineOfIntents ==
    /\ call.op = "vectors"
    /\ call' = [op |-> "cosineSimilarity", owner |-> "IntentRecognizer",
                a |-> call.a, b |-> call.b, out |-> IntentCosine(call.a, call.b)]
    /\ UNCHANGED <<storeVars, intentVars, calls, serverVars>>

NextCosine == CosineOfStore \/ CosineOfIntents

SpecCosine == InitCosine /\ [][NextCosine]_vars

IsCosine == call.op = "cosineSimilarity"

AllZero(v) == \A i \in 1..Len(v) : v[i] = 0

\* C22: cosineSimilarity of the store and of the index returns exactly 0, a
\* number and not NaN, whenever one of its two vectors is all zeros.
C22_ZeroVectorGivesZero ==
    (IsCosine /\ (AllZero(call.a) \/ AllZero(call.b))) => call.out = 0

\* The index's function on a zero query longer than the centroid: the dot
\* product is NaN and the norm test still returns 0.
C22_Witness ==
    /\ IsCosine
    /\ call.owner = "IntentRecognizer"
    /\ call.a = <<0, 0>> /\ call.b = <<1>>
    /\ IntentDot(call.a, call.b, 1) = NaN
    /\ call.out = 0

\* v with zeros appended up to n components.
Pad(v, n) == [i \in 1..n |-> IF i <= Len(v) THEN v[i] ELSE 0]

RECURSIVE PaddedDot(_, _, _)
PaddedDot(a, b, i) ==
    IF i > Len(a) THEN 0 ELSE a[i] * b[i] + PaddedDot(a, b, i + 1)

\* The cosine, in hundredths, of a and b padded with zeros to one length.
PaddedCosine(a, b) ==
    LET n == IF Len(a) > Len(b) THEN Len(a) ELSE Len(b)
        dot == PaddedDot(Pad(a, n), Pad(b, n), 1)
        normA == Sqrt(SumSq(a))
        normB == Sqrt(SumSq(b))
    IN  IF normA = 0 \/ normB = 0 THEN 0 ELSE (100 * dot) \div (normA * normB)

\* C23: on vectors of different lengths cosineSimilarity of the store and of
\* the index returns the cosine of the two vectors with the shorter padded
\* with zeros, whichever argument is the shorter, and never NaN.
C23_ShorterVectorZeroPadded ==
    IsCosine => call.out = PaddedCosine(call.a, call.b)

----------------------------------------------------------------------------
(* The program: start-up and requests *)

Init ==
    /\ server \in Servers
    /\ rag \in Rags
    /\ Starting

\* fs.readdir in setupVectorStore: the files of the directory, or a rejection,
\* which initializeSystem answers with process.exit(1).
ReadDir ==
    /\ init = "start"
    /\ \/ \E dir \in KnowledgeDirs :
             /\ validFiles' = dir
             /\ knowledge' = LoadAll(dir, rag)
             /\ init' = "loading"
       \/ /\ UNCHANGED <<validFiles, knowledge>>
          /\ init' = "exited"
    /\ UNCHANGED <<storeVars, intentVars, cursor, seeded, seedsStopped, requestVars,
                   buildVars, call, calls>>

\* One round of the loop over the chunks: the chunk is embedded and stored,
\* and a qa chunk is registered as a FAQ intent; an Error of either step is
\* caught and the loop goes on.
Ingest ==
    /\ init = "loading"
    /\ cursor < Len(knowledge)
    /\ LET doc == knowledge[cursor + 1]
       IN  \E r \in EmbedResponses(doc.pageContent) :
             \E r2 \in (IF IsQa(doc) /\ r.ok THEN EmbedResponses(doc.metadata.question)
                        ELSE {EmbedFailed}) :
               /\ IF r.ok
                  THEN addVectors(<<r.value>>,
                                  <<Document(Len(documents) + 1, doc.pageContent,
                                             doc.metadata)>>)
                  ELSE UNCHANGED storeVars
               /\ IF r.ok /\ IsQa(doc)
                  THEN /\ intents' = addFAQIntent(intents, faqData, doc.metadata.question,
                                                  r2, doc.metadata.answer).intents
                       /\ faqData' = addFAQIntent(intents, faqData, doc.metadata.question,
                                                  r2, doc.metadata.answer).faqData
                  ELSE UNCHANGED intentVars
    /\ cursor' = cursor + 1
    /\ UNCHANGED <<init, validFiles, knowledge, seeded, seedsStopped, requestVars, buildVars,
                   call, calls>>

\* setupVectorStore returns and initializeSystem assigns the two handles.
Publish ==
    /\ init = "loading"
    /\ cursor = Len(knowledge)
    /\ init' = "ready"
    /\ UNCHANGED <<storeVars, intentVars, validFiles, knowledge, cursor, seeded,
                   seedsStopped, requestVars, buildVars, call, calls>>

\* One addIntent of setupBankingIntents, which the constructor of
\* IntentRecognizer starts and does not await.  A rejection ends it.
SeedNext ==
    /\ rag = "rag.js"
    /\ init # "exited"
    /\ ~seedsStopped
    /\ seeded < Len(SeedIntents)
    /\ LET seed == SeedIntents[seeded + 1]
       IN  \E failing \in BOOLEAN :
             LET responses == [j \in 1..Len(seed.examples) |->
                                  IF failing /\ j = 1 THEN EmbedFailed
                                  ELSE EmbedOk(Arr(EmbeddingOf(seed.examples[j])))]
             IN  /\ intents' = addIntent(intents, seed.name, responses, seed.answer)
                 /\ seeded' = IF failing THEN seeded ELSE seeded + 1
                 /\ seedsStopped' = failing
    /\ UNCHANGED <<storeVars, faqData, init, validFiles, knowledge, cursor, requestVars,
                   buildVars, call, calls>>

\* The rejection of setupBankingIntents has no handler: a runtime that treats
\* an unhandled rejection as fatal ends the process.
UnhandledRejection ==
    /\ seedsStopped
    /\ init # "exited"
    /\ init' = "exited"
    /\ UNCHANGED <<storeVars, intentVars, validFiles, knowledge, cursor, seeded,
                   seedsStopped, requestVars, buildVars, call, calls>>

----------------------------------------------------------------------------
(* The /ask handler *)

PasswordQuestion == Words(<<"how", "do", "I", "change", "my", "password">>)
HoursQuestion == Words(<<"what", "are", "your", "opening", "hours">>)
IdentityQuestion == Words(<<"who", "are", "you">>)
Questions == {<<>>, PasswordQuestion, HoursQuestion, FaqQuestion, IdentityQuestion}

Initializing == <<"System initializing...">>
QuestionRequired == <<"Error: Question required">>
Unexpected == <<"An unexpected error occurred. Please try again.">>
AskAgain == <<"Could you please ask your question again?">>
GenericHelp == <<"I can help you with banking services like transfers, accounts, and cards. What would you like to know?">>

\* The k the handlers pass to similaritySearch, and the minScore it defaults to.
SearchK == 5
FirstSearchK == 1
DefaultMinScore == 60
DefaultMinScoreScored == 75

\* The handler's catch: the one message for whatever was thrown, and the end.
Caught(message, defined) ==
    /\ out' = Append(out, message)
    /\ ended' = ended + 1
    /\ req' = [req EXCEPT !.pc = "done", !.caught = TRUE,
                          !.embedded = req.embedded /\ defined]

\* The handler of server.js (second revision) and part_003 up to its first
\* await: the readiness guard and the check of the question.
Ask ==
    /\ server \in {"second", "streaming"}
    /\ init # "exited"
    /\ req.pc \in {"idle", "done"}
    /\ \E question \in Questions :
          IF init # "ready"
          THEN /\ out' = <<Msg(Initializing)>>
               /\ ended' = 1
               /\ req' = [IdleReq EXCEPT !.pc = "done", !.question = question,
                                         !.ready = FALSE]
          ELSE IF question = <<>>
          THEN /\ out' = <<Msg(QuestionRequired)>>
               /\ ended' = 1
               /\ req' = [IdleReq EXCEPT !.pc = "done"]
          ELSE /\ out' = <<>>
               /\ ended' = 0
               /\ req' = [IdleReq EXCEPT !.pc = "intent", !.question = question]
    /\ log' = <<>>
    /\ UNCHANGED <<storeVars, intentVars, startVars, buildVars, call, calls>>

\* The threshold detectIntent defaults to in the rag module in use.
Threshold == IF rag = "rag.js" THEN DefaultThreshold ELSE DefaultThresholdScored

\* "System answer: " and the answer of the intent: the context of the intent stage.
SystemAnswer(answer) == <<"System answer: ">> \o answer

\* detectIntent resolves; on an intent the handler looks its answer up and
\* starts the generation, else it goes on to the vector store.
Detect ==
    /\ req.pc = "intent"
    /\ init # "exited"
    /\ \E r \in EmbedResponses(req.question) :
          LET intent == detectIntent(intents, r, Threshold)
              defined == r.ok /\ r.value.def
          IN  IF detectIntentError(intents, r) # "none"
              THEN Caught(Msg(Unexpected), FALSE)
              ELSE IF intent.none
              THEN /\ req' = [req EXCEPT !.pc = "db", !.embedded = defined]
                   /\ UNCHANGED <<out, ended>>
              ELSE IF ~MapHas(intents, intent.name)
              THEN Caught(Msg(Unexpected), defined)
              ELSE /\ req' = [req EXCEPT
                                 !.pc = "intentGen", !.embedded = defined,
                                 !.intent = intent.name,
                                 !.context = SystemAnswer(MapGet(intents, intent.name).answer)]
                   /\ UNCHANGED <<out, ended>>
    /\ log' = log \o <<"detectIntent", "getEmbedding">>
    /\ UNCHANGED <<storeVars, intentVars, startVars, buildVars, call, calls>>

\* The context of the fallback stage.
NoMatchContext == <<"I couldn't find a match, but here's what I think:">>

\* The context of the vector-store stage: a heading and the content of each entry.
RECURSIVE ContextFrom(_, _)
ContextFrom(results, i) ==
    IF i > Len(results) THEN <<>>
    ELSE <<"SOURCE ", ToString(i), " (", results[i].doc.metadata.source, "):", NL>>
         \o results[i].doc.pageContent
         \o (IF i < Len(results) THEN <<NL, NL>> ELSE <<>>)
         \o ContextFrom(results, i + 1)

\* The question is embedded and the store searched.  Each result is read as
\* {doc}: the store of rag.js returns the documents themselves, so that doc is
\* undefined there and doc.metadata throws.
Search ==
    /\ req.pc = "db"
    /\ init # "exited"
    /\ \E r \in EmbedResponses(req.question) :
          /\ log' = log \o <<"getEmbedding">>
                        \o (IF r.ok THEN <<"similaritySearch">> ELSE <<>>)
          /\ IF ~r.ok \/ similaritySearchThrows(r.value)
             THEN Caught(Msg(Unexpected), r.ok /\ r.value.def)
             ELSE IF rag = "rag.js"
             THEN IF similaritySearch(r.value, SearchK, DefaultMinScore) = <<>>
                  THEN /\ req' = [req EXCEPT !.pc = "fbGen",
                                             !.embedded = req.embedded /\ r.value.def,
                                             !.context = NoMatchContext]
                       /\ UNCHANGED <<out, ended>>
                  ELSE Caught(Msg(Unexpected), r.value.def)
             ELSE LET results == similaritySearchScored(r.value, SearchK,
                                                        DefaultMinScoreScored)
                  IN  /\ req' = [req EXCEPT
                                    !.pc = IF results = <<>> THEN "fbGen" ELSE "dbGen",
                                    !.embedded = req.embedded /\ r.value.def,
                                    !.context = IF results = <<>> THEN NoMatchContext
                                                ELSE ContextFrom(results, 1)]
                      /\ UNCHANGED <<out, ended>>
    /\ UNCHANGED <<storeVars, intentVars, startVars, buildVars, call, calls>>

\* responseSent after a stage has written its messages.
responseSentOnlyByStore(stage) == stage = "dbGen"
responseSentNever(stage) == FALSE
responseSent(stage) == stage \in {"intentGen", "dbGen"}

\* A handler that goes on to the next stage whatever responseSent says.
NextStageFallsThrough(stage, sent) ==
    IF stage = "fbGen" THEN "done"
    ELSE IF stage = "intentGen" THEN "db"
    ELSE "fbGen"

\* The stage the handler goes to behind a stage, by its tests of responseSent.
NextStage(stage, sent) ==
    IF sent \/ stage = "fbGen" THEN "done"
    ELSE IF stage = "intentGen" THEN "db"
    ELSE "fbGen"

\* generateDynamicAnswer resolves: the handler writes the answer in messages
\* of ChunkSize lines and, with responseSent or behind the fallback, ends.
\* The fetch of generateDynamicAnswer has no signal and no timer: when the
\* service never answers, the await never resumes.
Generate ==
    /\ req.pc \in {"intentGen", "dbGen", "fbGen"}
    /\ init # "exited"
    /\ \E reply \in GenReplies :
          LET answer == IF server = "streaming" THEN generateDynamicAnswerStream(reply)
                        ELSE generateDynamicAnswer(reply)
              next == NextStage(req.pc, responseSent(req.pc))
          IN  IF reply.kind = "hang"
              THEN /\ req' = [req EXCEPT !.pc = "waiting", !.reply = reply]
                   /\ UNCHANGED <<out, ended>>
              ELSE /\ out' = out \o compactMessages(answer)
                   /\ ended' = IF next = "done" THEN ended + 1 ELSE ended
                   /\ req' = [req EXCEPT
                                 !.pc = next, !.reply = reply,
                                 !.context = IF next = "fbGen" THEN NoMatchContext ELSE @,
                                 !.answered = Append(@, req.pc)]
    /\ log' = Append(log, "generate")
    /\ UNCHANGED <<storeVars, intentVars, startVars, buildVars, call, calls>>

----------------------------------------------------------------------------
(* The /ask handler of the first revision of server.js *)

IdentityAnswer == <<"Hi! I'm your Hanseatic Helper, a banking assistant.">>
LocationAnswer == <<"I'm a digital banking assistant for Hanseatic Bank.">>
FeaturesAnswer == <<"I can help you with online banking and more.">>
CardHelp == <<"I can help you with card services.">>
AccountHelp == <<"I can assist you with account management.">>
AreaHelp == <<"I can help you with online banking, transfers, cards, and account services. Which area interests you?">>

\* The answer the handler has ready for a question, <<>> when it has none.
cannedResponse(question) ==
    LET questionLower == trim(toLowerCase(question))
    IN  IF includes(questionLower, Words(<<"who", "are", "you">>)) THEN IdentityAnswer
        ELSE IF \E w \in {"where", "location", "address"} : includes(questionLower, <<w>>)
             THEN LocationAnswer
        ELSE IF \/ includes(questionLower, <<"features">>)
                \/ includes(questionLower, Words(<<"what", "can", "you", "do">>))
             THEN FeaturesAnswer
        ELSE <<>>

\* The answer the handler gives when the generation call fails or times out.
timeoutResponse(question) ==
    LET questionLower == trim(toLowerCase(question))
    IN  IF includes(questionLower, <<"card">>) THEN CardHelp
        ELSE IF includes(questionLower, <<"account">>) THEN AccountHelp
        ELSE AreaHelp

\* .replace(/<think>[\s\S]*?<\/think>/g, '')
RECURSIVE removeThink(_)
removeThink(text) ==
    LET opens == {i \in 1..Len(text) : text[i] = "<think>"}
        first == CHOOSE i \in opens : \A j \in opens : i <= j
        closes == {j \in 1..Len(text) : text[j] = "</think>" /\ j > first}
        close == CHOOSE j \in closes : \A i \in closes : j <= i
    IN  IF opens = {} \/ closes = {} THEN text
        ELSE SubSeq(text, 1, first - 1) \o removeThink(SubSeq(text, close + 1, Len(text)))

\* .replace(/\n+/g, ' ') from position p on.
RECURSIVE breaksToBlank(_, _)
breaksToBlank(text, p) ==
    IF p > Len(text) THEN <<>>
    ELSE IF text[p] # NL THEN <<text[p]>> \o breaksToBlank(text, p + 1)
    ELSE <<" ">> \o breaksToBlank(text, BreakRunEnd(text, p) + 1)

\* The response the handler makes of the answer of the generation service; any
\* Error, the abort by the timer of three seconds included, gives the prepared
\* answer.
firstResponse(question, reply) ==
    IF reply.kind = "ok" THEN trim(breaksToBlank(removeThink(reply.response), 1))
    ELSE timeoutResponse(question)

\* The handler up to its first await.  It does not look at the handles.
AskFirst ==
    /\ server = "first"
    /\ init # "exited"
    /\ req.pc \in {"idle", "done"}
    /\ \E question \in Questions :
          IF question = <<>>
          THEN /\ out' = <<Msg(AskAgain)>>
               /\ ended' = 1
               /\ req' = [IdleReq EXCEPT !.pc = "done", !.ready = (init = "ready")]
          ELSE IF cannedResponse(question) # <<>>
          THEN /\ out' = <<Resp(cannedResponse(question))>>
               /\ ended' = 1
               /\ req' = [IdleReq EXCEPT !.pc = "done", !.question = question,
                                         !.ready = (init = "ready")]
          ELSE /\ out' = <<>>
               /\ ended' = 0
               /\ req' = [IdleReq EXCEPT !.pc = "embed", !.question = question,
                                         !.ready = (init = "ready")]
    /\ log' = <<>>
    /\ UNCHANGED <<storeVars, intentVars, startVars, buildVars, call, calls>>

\* getEmbedding resolves and the handler searches the store for one entry: a
\* qa entry is the answer, else the generation is started.  vectorStore is
\* undefined until the handles are assigned; a result of part_004 has no
\* metadata.
FirstLookup ==
    /\ req.pc = "embed"
    /\ init # "exited"
    /\ \E r \in EmbedResponses(req.question) :
          /\ log' = log \o <<"getEmbedding">>
                        \o (IF r.ok /\ init = "ready" THEN <<"similaritySearch">> ELSE <<>>)
          /\ IF ~r.ok \/ init # "ready" \/ similaritySearchThrows(r.value)
             THEN Caught(Resp(GenericHelp), r.ok /\ r.value.def)
             ELSE IF rag = "rag.js"
             THEN LET results == similaritySearch(r.value, FirstSearchK, DefaultMinScore)
                  IN  IF results # <<>> /\ results[1].metadata.type = "qa"
                      THEN /\ out' = Append(out, Resp(results[1].metadata.answer))
                           /\ ended' = ended + 1
                           /\ req' = [req EXCEPT !.pc = "done",
                                                 !.embedded = r.value.def,
                                                 !.answered = <<"embed">>]
                      ELSE /\ req' = [req EXCEPT !.pc = "gen", !.embedded = r.value.def]
                           /\ UNCHANGED <<out, ended>>
             ELSE IF similaritySearchScored(r.value, FirstSearchK,
                                            DefaultMinScoreScored) # <<>>
                  THEN Caught(Resp(GenericHelp), r.value.def)
                  ELSE /\ req' = [req EXCEPT !.pc = "gen", !.embedded = r.value.def]
                       /\ UNCHANGED <<out, ended>>
    /\ UNCHANGED <<storeVars, intentVars, startVars, buildVars, call, calls>>

\* The generation call resolves, fails or is aborted; the response is written.
FirstGenerate ==
    /\ req.pc = "gen"
    /\ init # "exited"
    /\ \E reply \in GenReplies :
          /\ out' = Append(out, Resp(firstResponse(req.question, reply)))
          /\ req' = [req EXCEPT !.pc = "done", !.reply = reply,
                                !.answered = <<"gen">>]
    /\ ended' = ended + 1
    /\ log' = Append(log, "generate")
    /\ UNCHANGED <<storeVars, intentVars, startVars, buildVars, call, calls>>

Next ==
    \/ ReadDir \/ Ingest \/ Publish \/ SeedNext \/ UnhandledRejection
    \/ Ask \/ Detect \/ Search \/ Generate
    \/ AskFirst \/ FirstLookup \/ FirstGenerate

Spec == Init /\ [][Next]_vars

----------------------------------------------------------------------------
(* Claims about the program *)

\* Whether the handler has made a call of the given name for the request.
Called(name) == \E i \in 1..Len(log) : log[i] = name

\* What the store answers the question of the request, asked with its embedding.
StoreResults ==
    IF rag = "rag.js"
    THEN similaritySearch(Arr(EmbeddingOf(req.question)), SearchK, DefaultMinScore)
    ELSE similaritySearchScored(Arr(EmbeddingOf(req.question)), SearchK,
                                DefaultMinScoreScored)

\* The messages the handler makes of the answer of the generation service.
AssembledMessages ==
    compactMessages(IF server = "streaming" THEN generateDynamicAnswerStream(req.reply)
                    ELSE generateDynamicAnswer(req.reply))

\* C1: a request with a question, taken when the system is ready, with an
\* embedding given by the service each time it was asked, goes through intent
\* lookup, store lookup and generation in this order: the store is searched
\* only when no intent was detected, the generation without context is made
\* only when the store returned nothing, and exactly one stage produces the
\* answer.
C1_StagesInOrderOneAnswers ==
    (/\ server \in {"second", "streaming"}
     /\ req.pc = "done" /\ req.ready /\ req.question # <<>> /\ req.embedded
     /\ \A i \in 1..Len(vectors) : vectors[i].def)
        => /\ \A i, j \in 1..Len(log) :
                 \/ (log[i] = "detectIntent" /\ log[j] \in {"similaritySearch", "generate"})
                 \/ (log[i] = "similaritySearch" /\ log[j] = "generate")
                 => i < j
           /\ Called("similaritySearch") => req.intent = null
           /\ Len(req.answered) = 1
           /\ req.answered = <<"fbGen">> => (Called("similaritySearch") /\ StoreResults = <<>>)

\* C2: a request that arrives before the handles are assigned is answered
\* with "System initializing...", and no call is made for it.
C2_EarlyRequestGetsInitializing ==
    ~req.ready => /\ log = <<>>
                  /\ req.pc = "done" => out = <<Msg(Initializing)>>

\* C3: once the handles are assigned, the four seeded intents and the FAQ
\* intent of every qa chunk are registered, every chunk of the directory has
\* been through the loop, and neither the store nor the index is being filled.
C3_ReadyMeansFilled ==
    init = "ready" =>
        /\ rag = "rag.js" =>
              /\ \A i \in 1..Len(SeedIntents) : MapHas(intents, SeedIntents[i].name)
              /\ seeded = Len(SeedIntents)
        /\ \A i \in 1..Len(documents) :
              IsQa(documents[i])
                 => MapHas(intents, FaqIntentName(documents[i].metadata.question))
        /\ cursor = Len(knowledge)

\* C9: when detectIntent returned an intent, the request makes no search of
\* the vector store, the generation is given the answer of the intent as its
\* context, and the messages are those made of the generation's answer: none
\* of it reads the store.
C9_IntentHitBypassesStore ==
    (server \in {"second", "streaming"} /\ req.intent # null) =>
        /\ ~Called("similaritySearch")
        /\ \E i \in 1..Len(intents) :
              /\ intents[i].name = req.intent
              /\ req.context = SystemAnswer(intents[i].answer)
        /\ req.pc = "done" => (out = AssembledMessages /\ req.answered = <<"intentGen">>)

\* The question of a FAQ entry answered by its intent, with a store that
\* holds entries for the question.
C9_Witness ==
    /\ server \in {"second", "streaming"}
    /\ req.pc = "done"
    /\ req.question = FaqQuestion
    /\ req.intent = FaqIntentName(FaqQuestion)
    /\ req.reply.kind = "ok"
    /\ StoreResults # <<>>
    /\ Len(out) >= 1

\* C10: when the generation service answers with a non-2xx status or without
\* the response field, the request yields exactly one message, the fallback
\* text with the detail of the error, and the handler's catch is not reached.
C10_GenerationErrorOneFallback ==
    (server = "second" /\ req.pc = "done" /\ req.reply.kind \in {"status", "noField"}) =>
        /\ ~req.caught
        /\ Len(out) = 1
        /\ out[1] = Msg(Fallback(IF req.reply.kind = "status" THEN StatusError(req.reply)
                                 ELSE <<"Invalid response format from Ollama">>))

----------------------------------------------------------------------------
(* Claims about failures of the services *)

\* C11: every request ends with the response closed once and at least one
\* message of non-empty text written, whatever the embedding service and the
\* generation service did; no request is left waiting without an answer.
C11_EveryRequestAnswered ==
    /\ req.pc # "waiting"
    /\ req.pc = "done" => /\ ended = 1
                          /\ \E i \in 1..Len(out) : out[i].text # <<>>

\* C13: when the clean-up of generateDynamicAnswer leaves the empty text, the
\* request writes exactly one message, and its text is not empty.
C13_EmptyCleanedTextOneFallback ==
    (/\ server = "second" /\ req.pc = "done"
     /\ req.reply.kind = "ok" /\ req.reply.response # <<>>
     /\ cleanUp(req.reply.response) = <<>>)
        => /\ Len(out) = 1
           /\ out[1].text # <<>>

\* C15: a generation call that the service never answers is cancelled by a
\* timer, and the request is completed with the prepared answer chosen by the
\* keywords of the question.
C15_GenerationCallTimesOut ==
    req.reply.kind = "hang" =>
        /\ req.pc = "done"
        /\ ended = 1
        /\ Len(out) = 1
        /\ out[1].text = timeoutResponse(req.question)

\* How many calls of the given name the handler has made for the request.
Count(name) == Cardinality({i \in 1..Len(log) : log[i] = name})

\* C16: no call is made again.  A request makes at most one generation call,
\* at most one detectIntent and one search, and at most one embedding call for
\* each of the two; after a call has failed the request makes no further call.
C16_NoCallRetried ==
    /\ Count("generate") <= 1
    /\ Count("detectIntent") <= 1
    /\ Count("similaritySearch") <= 1
    /\ Count("getEmbedding") <= Count("detectIntent") + 1
    /\ Count("getEmbedding") <= (IF server = "first" THEN 1 ELSE 2)
    /\ req.caught => req.pc = "done"
    /\ req.reply.kind \notin {"none", "ok"} => req.pc \in {"done", "waiting"}

\* A request that made both lookups and whose generation call failed: it has
\* ended, with one generation call made.
C16_Witness ==
    /\ server = "second"
    /\ req.pc = "done"
    /\ req.reply.kind = "status"
    /\ Count("getEmbedding") = 2
    /\ Count("generate") = 1

\* C17: getEmbedding fails when the status of the service's answer is not a
\* success and when the body of a success answer has no embedding; what it
\* returns to its caller is a vector.
C17_GetEmbeddingFailsWithoutVector ==
    call.op = "detectIntent" =>
        /\ (~call.answer.ok \/ ~call.answer.embedding.def) => ~call.response.ok
        /\ call.response.ok => call.response.value.def

\* C18: whatever vectors were inserted, a search does not throw, and it
\* returns the empty sequence when no entry qualifies, the empty store
\* included.
C18_SearchNeverRaises ==
    call.op \in {"similaritySearch", "similaritySearchScored"} =>
        /\ ~call.threw
        /\ Qualifying = {} => call.out = <<>>

----------------------------------------------------------------------------
(* Claims about start-up *)

\* The chunks loadFile makes of a file that can be read.
ChunksOf(file) == IF rag = "rag.js" THEN loadFile(file) ELSE loadFileScored(file)

\* Whether a chunk is one of the chunks to embed.
InKnowledge(chunk) == \E i \in 1..Len(knowledge) : knowledge[i] = chunk

\* C14: a file that cannot be read or parsed gives no chunk and does not stop
\* the ingestion: every chunk of every other file is among the chunks to embed,
\* it has been through the loop when setupVectorStore returns, and the failure
\* of the file does not end the process.
C14_CorruptFileSkipped ==
    init # "start" =>
        /\ \A i \in 1..Len(validFiles) :
              LET file == validFiles[i]
              IN  IF file.corrupt
                  THEN \A j \in 1..Len(knowledge) :
                          knowledge[j].metadata.source # file.name
                  ELSE \A j \in 1..Len(ChunksOf(file)) : InKnowledge(ChunksOf(file)[j])
        /\ init = "ready" => cursor = Len(knowledge)
        /\ init = "exited" /\ validFiles # <<>> => seedsStopped

\* A directory with a corrupt file in it, loaded: the chunks of the two other
\* files are in the store.
C14_Witness ==
    /\ init = "ready"
    /\ \E i \in 1..Len(validFiles) : validFiles[i].corrupt
    /\ Len(knowledge) = 2
    /\ Len(documents) = 2

\* C19: once the ingestion is over, every qa chunk in the vector store has
\* its FAQ intent in the index, with the answer of the chunk.
C19_StoredQaChunkHasFaqIntent ==
    (init = "ready" /\ rag = "rag.js") =>
        \A i \in 1..Len(documents) :
           documents[i].metadata.type = "qa" =>
              LET intentName == FaqIntentName(documents[i].metadata.question)
              IN  /\ MapHas(intents, intentName)
                  /\ MapGet(intents, intentName).answer = documents[i].metadata.answer

----------------------------------------------------------------------------
(* Claims about the FAQ intents *)

\* The name both questions given to addFAQIntent derive: faq_what_is_x_
FaqName == <<"faq_", "what", "_", "is", "_", "x", "_">>

\* C20: a registration of a FAQ intent that succeeds stores the entry under
\* the name derived from the question; afterwards the name maps to the new
\* answer, also when it was registered before, for another question too, and
\* the entries under every other name are the ones there were.
C20_FaqIntentLastWriteWins ==
    [][(call'.op = "addFAQIntent" /\ calls' = calls + 1 /\ call'.error = "none") =>
          /\ call'.intentName = FaqName
          /\ Cardinality({i \in 1..Len(intents') : intents'[i].name = FaqName}) = 1
          /\ MapGet(intents', FaqName).answer = call'.answer
          /\ MapGet(faqData', FaqName)
                = [name |-> FaqName, question |-> call'.question, answer |-> call'.answer]
          /\ \A i \in 1..Len(intents) :
                intents[i].name # FaqName => \E j \in 1..Len(intents') : intents'[j] = intents[i]
          /\ \A j \in 1..Len(intents') :
                intents'[j].name # FaqName => \E i \in 1..Len(intents) : intents[i] = intents'[j]
       ]_vars

\* A second registration under the name, for the other question: the name
\* maps to the answer of the second.
C20_Witness ==
    /\ call.op = "addFAQIntent" /\ call.error = "none"
    /\ call.replaced
    /\ call.question = <<"what", " ", "is", " ", "x", "!">>
    /\ Len(intents) = 1
    /\ intents[1].name = FaqName
    /\ intents[1].answer = AnswerOf(2)
    /\ faqData = <<[name |-> FaqName, question |-> call.question, answer |-> AnswerOf(2)]>>

----------------------------------------------------------------------------
(* Claims about the contents after start-up *)

\* C21: once the system is ready, no step changes the vector store or the
\* intent index: a request leaves them as they are, and so does everything
\* else, so two equal questions after readiness meet the same contents.
C21_ReadOnlyAfterReady ==
    [][init = "ready" =>
          /\ vectors' = vectors
          /\ documents' = documents
          /\ intents' = intents
          /\ faqData' = faqData]_vars

\* C24: a process whose initialization failed has ended: it never becomes
\* ready and answers nothing more; and no stage of a request writes an answer
\* while the vector store and the intent index hold no entry at all.
C24_FailedInitNeverServes ==
    [][/\ init = "exited" => (init' = "exited" /\ requestVars' = requestVars)
       /\ (server # "first" /\ Len(req'.answered) > Len(req.answered))
             => (documents # <<>> \/ intents # <<>>)]_vars

----------------------------------------------------------------------------
(* Claims about the answer text *)

\* C25: for the same generated text the streaming server writes the messages
\* the single-shot server writes: the text it cleans is the concatenation, in
\* order, of the response fields of the streamed objects.
C25_StreamingEqualsSingleShot ==
    (/\ server = "streaming"
     /\ Len(req.answered) = 1
     /\ req.pc # "waiting"
     /\ req.reply.kind = "ok")
        => out = compactMessages(generateDynamicAnswer(req.reply))

----------------------------------------------------------------------------
(* splitText on its own: one call on a text without question and answer *)

\* The end of the separator \n\s*\n that begins at p: the last line break of
\* the white space behind p, or p when there is none.
BlankEnd(text, p) ==
    LET run == {r \in p..Len(text) : \A i \in (p + 1)..r : text[i] \in Whitespace}
        breaks == {j \in (p + 1)..Len(text) : j \in run /\ text[j] = NL}
    IN  IF breaks = {} THEN p ELSE CHOOSE j \in breaks : \A i \in breaks : i <= j

\* text.split(/(?=\n#+ )|\n\s*\n/) from position p on, the section at hand
\* beginning at start: a section ends before the line break of a heading and
\* at a blank line, which is dropped.
RECURSIVE SplitFrom(_, _, _)
SplitFrom(text, p, start) ==
    IF p > Len(text) THEN <<SubSeq(text, start, Len(text))>>
    ELSE IF text[p] = NL /\ p < Len(text) /\ text[p + 1] = Hash
         THEN IF p = start THEN SplitFrom(text, p + 1, start)
              ELSE <<SubSeq(text, start, p - 1)>> \o SplitFrom(text, p, p)
    ELSE IF text[p] = NL /\ BlankEnd(text, p) > p
         THEN <<SubSeq(text, start, p - 1)>>
              \o SplitFrom(text, BlankEnd(text, p) + 1, BlankEnd(text, p) + 1)
    ELSE SplitFrom(text, p + 1, start)

\* section.trim().replace(/\n+/g, ' ')
CleanSection(section) == breaksToBlank(trim(section), 1)

\* The cleaned sections of a text, in order.
CleanSections(text) ==
    LET sections == SplitFrom(text, 1, 1)
    IN  [i \in 1..Len(sections) |-> CleanSection(sections[i])]

\* String.prototype.length
RECURSIVE TextLen(_)
TextLen(text) == IF text = <<>> THEN 0 ELSE CharLen(Head(text)) + TextLen(Tail(text))

\* if (clean.length > 50) chunks.push(clean)
LongEnough(clean) == TextLen(clean) > MinSectionLength

\* splitText on a text in which the pattern of question and answer finds
\* nothing: the cleaned sections that are long enough.
splitText(text) == FilterSeq(CleanSections(text), LongEnough)

\* Sections of 49, 50 and 51 characters, one of them on two lines, one with a
\* blank behind it, and a short one.
SectionTexts ==
    {<<WordOf(MinSectionLength - 1)>>, <<WordOf(MinSectionLength)>>,
     <<WordOf(MinSectionLength + 1)>>,
     <<WordOf(MinSectionLength - 2), NL, "x">>,
     <<WordOf(MinSectionLength - 3), " ", "x", " ">>,
     <<"x">>}

\* What stands between two sections: a blank line, a line of blanks, a heading.
Separators == {<<NL, NL>>, <<NL, " ", NL, NL>>, <<NL, Hash>>}

RECURSIVE TextsOf(_)
TextsOf(n) ==
    IF n = 1 THEN SectionTexts
    ELSE {t \o sep \o s : t \in TextsOf(n - 1), sep \in Separators, s \in SectionTexts}

InitSplit ==
    /\ server = "second"
    /\ rag \in {"rag.js", "part_004"}
    /\ AtRest
    /\ \E n \in 1..MaxSections : \E text \in TextsOf(n) :
          call = [op |-> "text", text |-> text]

SplitText ==
    /\ call.op = "text"
    /\ call' = [op |-> "splitText", text |-> call.text, out |-> splitText(call.text)]
    /\ UNCHANGED <<storeVars, intentVars, calls, serverVars>>

NextSplit == SplitText

SpecSplit == InitSplit /\ [][NextSplit]_vars

AtLeastMin(clean) == TextLen(clean) >= MinSectionLength

\* C26: where splitText falls back to sections, a section becomes a chunk
\* exactly when its cleaned text has at least 50 characters.
C26_SectionKeptIffAtLeast50 ==
    call.op = "splitText" => call.out = FilterSeq(CleanSections(call.text), AtLeastMin)

----------------------------------------------------------------------------
(* generateDynamicAnswer on its own: one call on any generated text *)

\* The generated texts: up to MaxRaw words, long words, blanks, line breaks
\* and bullets in any order.
RawTexts == UNION {[1..n -> {"Done", LongWord, " ", NL, Bullet}] : n \in 1..MaxRaw}

InitAnswer ==
    /\ server = "second"
    /\ rag = "rag.js"
    /\ AtRest
    /\ \E raw \in RawTexts : call = [op |-> "generated", raw |-> raw]

\* generateDynamicAnswer when the service answers with the text call.raw.
GenerateAnswer ==
    /\ call.op = "generated"
    /\ call' = [op |-> "generateDynamicAnswer", raw |-> call.raw,
                out |-> generateDynamicAnswer(ReplyOk(call.raw))]
    /\ UNCHANGED <<storeVars, intentVars, calls, serverVars>>

NextAnswer == GenerateAnswer

SpecAnswer == InitAnswer /\ [][NextAnswer]_vars

\* C27: the text generateDynamicAnswer returns never holds three line breaks
\* or more in a row, whatever the generated text, lines of 120 characters and
\* more that the wrapping breaks included.
C27_NoThreeBreaksInARow ==
    call.op = "generateDynamicAnswer" =>
        ~\E i \in 1..(Len(call.out) - 2) :
            call.out[i] = NL /\ call.out[i + 1] = NL /\ call.out[i + 2] = NL

----------------------------------------------------------------------------
(* Claims about the lists of the vector store *)

\* C28: the list of vectors and the list of chunks of the vector store have
\* the same length, and position i of the vectors holds the embedding of the
\* chunk at position i; a chunk whose embedding call failed is in neither.
C28_VectorsAlignedWithChunks ==
    /\ Len(vectors) = Len(documents)
    /\ \A i \in 1..Len(documents) :
          vectors[i] = Arr(EmbeddingOf(documents[i].pageContent))

----------------------------------------------------------------------------
(* Claims about the response of a request *)

\* C30: the handler closes the response of a request once and not before its
\* last write, and what it has written by then is of one kind: the answer
\* messages of one stage, or the one message of an unexpected error, or the
\* one message that the system is initializing or that a question is
\* required.  The error message never follows answer messages.
C30_ClosedOnceOneKindOfMessage ==
    server # "first" =>
        /\ ended \in {0, 1}
        /\ ended = 0 => (out = <<>> /\ req.pc # "done")
        /\ req.pc = "done" =>
              /\ ended = 1
              /\ \/ out = <<Msg(Initializing)>> /\ ~req.ready
                 \/ out = <<Msg(QuestionRequired)>> /\ req.question = <<>>
                 \/ /\ out = <<Msg(Unexpected)>>
                    /\ req.caught /\ req.answered = <<>>
                 \/ /\ out = AssembledMessages
                    /\ ~req.caught /\ Len(req.answered) = 1

\* A request answered by the store stage in two messages, and closed.
C30_Witness ==
    /\ server = "second"
    /\ req.pc = "done" /\ ended = 1
    /\ req.answered = <<"dbGen">>
    /\ Len(out) = 2
    /\ out = AssembledMessages

====
